---- MODULE Spec2Model ----
(***************************************************************************)
(* Amortization engine of the Loan-Management repository.                  *)
(*                                                                         *)
(*   LoanAnalyzer          src/loan_app.py      lines 24-75                *)
(*   LoanScenarioAnalyzer  src/loan_manager.py  lines 15-64                *)
(*                                                                         *)
(* and the refinancing analyses built on it:                               *)
(*                                                                         *)
(*   scenario_analysis     src/loan_manager.py  lines 66-117               *)
(*   workbook formulas     src/loan_manager.py  lines 262-313, 351-407     *)
(*   refinancing tab       src/loan_app.py      lines 160-162, 176-258     *)
(*                                                                         *)
(* Money, rates and terms are Python floats in the source.  They are       *)
(* modelled here as exact rationals <<numerator, denominator>> in lowest   *)
(* terms with a positive denominator: every arithmetic expression of the   *)
(* source is evaluated operator by operator, in the source's order, over   *)
(* the rationals.  IEEE-754 rounding of the individual operations is not   *)
(* represented there; the operation "floats" runs the schedule of          *)
(* LoanAnalyzer in float arithmetic, every operation rounded to 53 bits,   *)
(* on loans whose monthly growth factor is a power of two.                 *)
(***************************************************************************)
EXTENDS Integers, Sequences, FiniteSets, TLC

(***************************************************************************)
(* Exact rational arithmetic.                                              *)
(***************************************************************************)
Abs(i) == IF i < 0 THEN -i ELSE i

RECURSIVE GCD(_, _)
GCD(a, b) == IF b = 0 THEN a ELSE GCD(b, a % b)

Norm(n, d) ==
    LET g == GCD(Abs(n), Abs(d))
        s == IF d < 0 THEN -1 ELSE 1
    IN  <<s * (n \div g), s * (d \div g)>>

R(i) == <<i, 1>>
Zero == R(0)
One == R(1)

RNeg(a) == <<-a[1], a[2]>>

RAdd(a, b) ==
    LET g == GCD(a[2], b[2])
    IN  Norm(a[1] * (b[2] \div g) + b[1] * (a[2] \div g), a[2] * (b[2] \div g))

RSub(a, b) == RAdd(a, RNeg(b))

RMul(a, b) ==
    LET g1 == GCD(Abs(a[1]), b[2])
        g2 == GCD(Abs(b[1]), a[2])
    IN  <<(a[1] \div g1) * (b[1] \div g2), (a[2] \div g2) * (b[2] \div g1)>>

\* reciprocal of a nonzero rational
RInv(a) == IF a[1] < 0 THEN <<-a[2], -a[1]>> ELSE <<a[2], a[1]>>

\* a / b for b # 0 (the callers test b = Zero first: Python raises
\* ZeroDivisionError there)
RDiv(a, b) == RMul(a, RInv(b))

\* comparisons, by the sign of the difference
RLt(a, b) == RSub(a, b)[1] < 0
RLe(a, b) == RSub(a, b)[1] <= 0
RIsInt(a) == a[2] = 1

\* a ** n for an integer n (a # 0 when n < 0)
RECURSIVE RPowNat(_, _)
RPowNat(a, n) == IF n = 0 THEN One ELSE RMul(a, RPowNat(a, n - 1))

RPow(a, n) == IF n >= 0 THEN RPowNat(a, n) ELSE RInv(RPowNat(a, -n))

\* the integer square root of a natural number
ISqrt(n) == CHOOSE s \in 0..n : s * s <= n /\ (s + 1) * (s + 1) > n

\* a >= 0 is the square of a rational
RIsSquare(a) ==
    /\ a[1] >= 0
    /\ ISqrt(a[1]) * ISqrt(a[1]) = a[1]
    /\ ISqrt(a[2]) * ISqrt(a[2]) = a[2]

RSqrt(a) == <<ISqrt(a[1]), ISqrt(a[2])>>

\* a ** x for a rational exponent x that is an integer, or half an integer
\* when a is a square
RPowQ(a, x) == IF x[2] = 1 THEN RPow(a, x[1]) ELSE RPow(RSqrt(a), x[1])

\* Python max(0, x)
RMax0(x) == IF RLt(x, Zero) THEN Zero ELSE x

\* Python int(x) on a float: truncation toward zero
PyInt(x) == IF x[1] >= 0 THEN x[1] \div x[2] ELSE -((-x[1]) \div x[2])

\* floor(x)
Floor(x) == x[1] \div x[2]

\* round(x): nearest integer, a tie going to the even neighbour
Round(x) ==
    LET f == Floor(x)
        twice == RSub(RMul(R(2), x), R(2 * f))    \* 2 * (x - f), in [0, 2)
    IN  IF RLt(twice, One) THEN f
        ELSE IF RLt(One, twice) THEN f + 1
        ELSE IF f % 2 = 0 THEN f ELSE f + 1

(***************************************************************************)
(* Interval arithmetic.  Where the exact rationals outgrow the integers (a *)
(* power with exponent 324), a float expression of the source is enclosed  *)
(* between two fixed-point numbers <<lo, hi>>, in units of 1 / Fix: the    *)
(* exact value of the expression lies in the interval.  All intervals are  *)
(* of non-negative numbers below 32.                                       *)
(***************************************************************************)
\* fixed-point numbers have 26 binary places, and two limbs of 13
FixBits == 26
Fix == 2 ^ FixBits
Limb == 2 ^ (FixBits \div 2)

\* floor(a * b / Fix) or one or two less, by the limbs of a and b
MulLo(a, b) ==
    LET a1 == a \div Limb
        a0 == a % Limb
        b1 == b \div Limb
        b0 == b % Limb
    IN  a1 * b1 + ((a1 * b0 + a0 * b1) \div Limb)

\* floor(rem * 2^k / b) for rem < b, by long division
RECURSIVE ShiftDiv(_, _, _)
ShiftDiv(rem, b, k) ==
    IF k = 0 THEN 0
    ELSE ((2 * rem) \div b) * 2 ^ (k - 1) + ShiftDiv((2 * rem) % b, b, k - 1)

\* floor(a * Fix / b)
DivLo(a, b) == (a \div b) * Fix + ShiftDiv(a % b, b, FixBits)

\* the interval of a rational
Enclose(x) == <<DivLo(x[1], x[2]), DivLo(x[1], x[2]) + 1>>
IOne == <<Fix, Fix>>

IAdd(x, y) == <<x[1] + y[1], x[2] + y[2]>>
ISub(x, y) == <<x[1] - y[2], x[2] - y[1]>>
IMul(x, y) == <<MulLo(x[1], y[1]), MulLo(x[2], y[2]) + 2>>
IDiv(x, y) == <<DivLo(x[1], y[2]), DivLo(x[2], y[1]) + 1>>

\* x ** n for a natural number n
RECURSIVE IPow(_, _)
IPow(x, n) ==
    IF n = 0 THEN IOne
    ELSE IF n % 2 = 0 THEN LET h == IPow(x, n \div 2) IN IMul(h, h)
    ELSE IMul(x, IPow(x, n - 1))

(***************************************************************************)
(* Bounds of the explored inputs.                                          *)
(***************************************************************************)
\* principals are the multiples of 100 from -100 to 100 * MaxPrincipalUnits
MaxPrincipalUnits == 3
\* terms are k/60 years (k/5 of a month) for k from -5 to MaxTermNum
MaxTermNum == 18

MonthsPerYear == 12
Percent == 100
\* enclosed amounts of money are in millions
Million == 1000000

Principals == { R(100 * k) : k \in -1..MaxPrincipalUnits }
\* annual rates in percent; 1500 makes 1 + monthly_rate the square 9/4
AnnualRates == { R(-12), R(0), R(12), R(120), R(1500) }
\* terms of k/5 of a month, and terms of h/2 of a month
Terms == { Norm(k, 5 * MonthsPerYear) : k \in -5..MaxTermNum }
         \cup { Norm(h, 2 * MonthsPerYear) : h \in -2..((2 * MaxTermNum) \div 5) }

\* refinancing is explored on terms of 1 to MaxRefiMonths whole months
MaxRefiMonths == 2
\* scenario_analysis is given at most MaxScenarios scenarios
MaxScenarios == 1
\* scenario.get('refi_costs', 5000)
DefaultRefiCosts == 5000

\* the loans of the refinancing analyses: an annual rate of 1200 percent
\* makes 1 + monthly_rate = 2
RefiRates == { R(0), R(1200) }
RefiTerms == { Norm(k, MonthsPerYear) : k \in 1..MaxRefiMonths }
RefiCosts == { R(0), R(300) }
\* the investment loan of the portfolio
Investments == { [loan |-> R(100), rate |-> R(1200),
                  term |-> Norm(2, MonthsPerYear)] }

\* a scenario is a dict with any of these keys
ScenarioKeys == {"apt_rate", "inv_rate", "apt_term", "inv_term", "refi_costs"}
ScenarioValues ==
    [apt_rate : RefiRates, inv_rate : {R(0)}, apt_term : RefiTerms,
     inv_term : {Norm(1, MonthsPerYear)}, refi_costs : {R(300)}]
ScenarioDicts ==
    { [k \in keys |-> full[k]] : full \in ScenarioValues,
                                 keys \in SUBSET ScenarioKeys }
ScenarioLists == UNION { [1..n -> ScenarioDicts] : n \in 0..MaxScenarios }

\* mutant: a missing key reads as 0
Get_ZeroDefault(d, key, default) == IF key \in DOMAIN d THEN d[key] ELSE Zero
\* dict.get(key, default)
Get(d, key, default) == IF key \in DOMAIN d THEN d[key] ELSE default

\* the widgets of the refinancing tab of the web page
Widgets ==
    [apt_refi : BOOLEAN, apt_new_rate : RefiRates, apt_new_term : RefiTerms,
     apt_refi_costs : RefiCosts,
     inv_refi : BOOLEAN, inv_new_rate : {R(0)},
     inv_new_term : {Norm(1, MonthsPerYear)}, inv_refi_costs : {R(300)}]

\* the editable cells of the workbook: B24 to B26 of the dashboard (new
\* rates, refinance costs), B13 to B15 of the apartment sheet (new rate, new
\* term, refinance costs)
Cells ==
    [Dashboard_B24 : { RDiv(r, R(Percent)) : r \in RefiRates },
     Dashboard_B25 : {R(0)},
     Dashboard_B26 : {R(300)},
     Apartment_B13 : { RDiv(r, R(Percent)) : r \in RefiRates },
     Apartment_B14 : RefiTerms,
     Apartment_B15 : {R(300)}]

\* 'N/A', and a value that is a number
NA == <<"N/A">>
IsNumber(x) == Len(x) = 2

(***************************************************************************)
(* Python floats: IEEE 754 binary64, every operation rounded to the        *)
(* nearest value of 53 significant bits, ties to even.  A natural number   *)
(* of any size is the sequence of its binary digits, lowest first and      *)
(* without leading zeros; a float is (-1)^neg * m * 2^e with m odd, or     *)
(* zero.  The exponent range (overflow, subnormal numbers) and the sign    *)
(* of zero are not modelled: the loans computed here stay far inside the   *)
(* range, and no code path tells -0.0 from 0.0.                            *)
(***************************************************************************)
MantissaBits == 53

RECURSIVE Bin(_)
Bin(n) == IF n = 0 THEN <<>> ELSE <<n % 2>> \o Bin(n \div 2)

\* the positions of the digits 1, the highest and the lowest of them
Ones(a) == { i \in 1..Len(a) : a[i] = 1 }
Highest(a) == CHOOSE i \in Ones(a) : \A j \in Ones(a) : j <= i
Lowest(a) == CHOOSE i \in Ones(a) : \A j \in Ones(a) : i <= j

Trim(a) == IF Ones(a) = {} THEN <<>> ELSE SubSeq(a, 1, Highest(a))

Bit(a, i) == IF i <= Len(a) THEN a[i] ELSE 0

Shl(a, k) == IF a = <<>> THEN <<>> ELSE [i \in 1..k |-> 0] \o a

\* the digits lo..hi of a + b + carry, and the carry out of them
RECURSIVE AddRange(_, _, _, _, _)
AddRange(a, b, lo, hi, carry) ==
    IF lo = hi
    THEN LET t == Bit(a, lo) + Bit(b, lo) + carry
         IN  [s |-> <<t % 2>>, c |-> t \div 2]
    ELSE LET mid == (lo + hi) \div 2
             low == AddRange(a, b, lo, mid, carry)
             high == AddRange(a, b, mid + 1, hi, low.c)
         IN  [s |-> low.s \o high.s, c |-> high.c]

BAdd(a, b) ==
    LET n == IF Len(a) < Len(b) THEN Len(b) ELSE Len(a)
    IN  IF n = 0 THEN <<>> ELSE Trim(AddRange(a, b, 1, n + 1, 0).s)

\* the digits lo..hi of a - b - borrow, and the borrow out of them
RECURSIVE SubRange(_, _, _, _, _)
SubRange(a, b, lo, hi, borrow) ==
    IF lo = hi
    THEN LET t == Bit(a, lo) - Bit(b, lo) - borrow
         IN  [s |-> <<(t + 2) % 2>>, c |-> IF t < 0 THEN 1 ELSE 0]
    ELSE LET mid == (lo + hi) \div 2
             low == SubRange(a, b, lo, mid, borrow)
             high == SubRange(a, b, mid + 1, hi, low.c)
         IN  [s |-> low.s \o high.s, c |-> high.c]

\* a - b for a >= b
BSub(a, b) == IF a = <<>> THEN <<>> ELSE Trim(SubRange(a, b, 1, Len(a), 0).s)

BLess(a, b) ==
    \/ Len(a) < Len(b)
    \/ /\ Len(a) = Len(b)
       /\ \E i \in 1..Len(a) :
              /\ a[i] < b[i]
              /\ \A j \in (i + 1)..Len(a) : a[j] = b[j]

\* a times the digits lo..hi of b
RECURSIVE MulRange(_, _, _, _)
MulRange(a, b, lo, hi) ==
    IF lo = hi THEN (IF b[lo] = 1 THEN a ELSE <<>>)
    ELSE LET mid == (lo + hi) \div 2
         IN  BAdd(MulRange(a, b, lo, mid),
                  Shl(MulRange(a, b, mid + 1, hi), mid + 1 - lo))

BMul(a, b) == IF a = <<>> \/ b = <<>> THEN <<>> ELSE MulRange(a, b, 1, Len(b))

RECURSIVE BPow(_, _)
BPow(a, n) ==
    IF n = 0 THEN <<1>>
    ELSE IF n % 2 = 0 THEN LET h == BPow(a, n \div 2) IN BMul(h, h)
    ELSE BMul(a, BPow(a, n - 1))

\* long division by b of the digits hi, hi - 1, ..., lo of a, with the
\* remainder rem of the digits above them: the digits q of the quotient,
\* highest first, and the remainder r
RECURSIVE DivRange(_, _, _, _, _)
DivRange(a, b, lo, hi, rem) ==
    IF lo = hi
    THEN LET r2 == Trim(<<a[lo]>> \o rem)
         IN  IF BLess(r2, b) THEN [q |-> <<0>>, r |-> r2]
             ELSE [q |-> <<1>>, r |-> BSub(r2, b)]
    ELSE LET mid == (lo + hi) \div 2
             high == DivRange(a, b, mid + 1, hi, rem)
             low == DivRange(a, b, lo, mid, high.r)
         IN  [q |-> high.q \o low.q, r |-> low.r]

Reverse(a) == [i \in 1..Len(a) |-> a[Len(a) + 1 - i]]

\* floor(a / b) and a mod b for a > 0
BDiv(a, b) ==
    LET d == DivRange(a, b, 1, Len(a), <<>>)
    IN  [q |-> Trim(Reverse(d.q)), r |-> d.r]

FZero == [neg |-> FALSE, m |-> <<>>, e |-> 0]

\* the float of value (-1)^neg * m * 2^e
Canon(neg, m, e) ==
    IF m = <<>> THEN FZero
    ELSE LET z == Lowest(m) - 1
         IN  [neg |-> neg, m |-> SubSeq(m, z + 1, Len(m)), e |-> e + z]

\* the float nearest to (-1)^neg * (m + f) * 2^e, where 0 < f < 1 if sticky
\* and f = 0 if not; a sticky m has more than MantissaBits digits
RoundNearestEven(neg, m, e, sticky) ==
    IF Len(m) <= MantissaBits THEN Canon(neg, m, e)
    ELSE LET drop == Len(m) - MantissaBits
             kept == SubSeq(m, drop + 1, Len(m))
             below == sticky \/ \E i \in 1..(drop - 1) : m[i] = 1
             up == m[drop] = 1 /\ (below \/ kept[1] = 1)
         IN  Canon(neg, IF up THEN BAdd(kept, <<1>>) ELSE kept, e + drop)

\* float(n) of a Python int n >= 0
FInt(n) == RoundNearestEven(FALSE, Bin(n), 0, FALSE)

FIsZero(x) == x.m = <<>>

FNeg(x) == IF x.m = <<>> THEN x ELSE [x EXCEPT !.neg = ~x.neg]

\* x + y
FAdd(x, y) ==
    LET e0 == IF x.e < y.e THEN x.e ELSE y.e
        mx == Shl(x.m, x.e - e0)
        my == Shl(y.m, y.e - e0)
    IN  IF x.neg = y.neg THEN RoundNearestEven(x.neg, BAdd(mx, my), e0, FALSE)
        ELSE IF BLess(mx, my)
             THEN RoundNearestEven(y.neg, BSub(my, mx), e0, FALSE)
             ELSE RoundNearestEven(x.neg, BSub(mx, my), e0, FALSE)

\* x - y
FSub(x, y) == FAdd(x, FNeg(y))

\* x * y
FMul(x, y) ==
    RoundNearestEven(x.neg # y.neg, BMul(x.m, y.m), x.e + y.e, FALSE)

\* x / y for y # 0
FDiv(x, y) ==
    LET k == IF Len(y.m) + MantissaBits + 2 > Len(x.m)
             THEN Len(y.m) + MantissaBits + 2 - Len(x.m) ELSE 0
        d == BDiv(Shl(x.m, k), y.m)
    IN  IF FIsZero(x) THEN FZero
        ELSE RoundNearestEven(x.neg # y.neg, d.q, x.e - y.e - k, d.r # <<>>)

\* x ** n for x > 0 and a Python int n >= 0: the power, rounded once (exact
\* whenever x is a power of two)
FPow(x, n) == RoundNearestEven(FALSE, BPow(x.m, n), x.e * n, FALSE)

\* the float of the number num/den entered as a decimal literal
FLit(x) == FDiv(FInt(x[1]), FInt(x[2]))

FPositive(x) == x.m # <<>> /\ ~x.neg
\* x < y
FLess(x, y) == LET d == FSub(y, x) IN FPositive(d)
\* max(0, x)
FMax0(x) == IF FPositive(x) THEN x ELSE FZero

\* the apartment loan of the web page: 555000 at 5.49 percent over 27 years
StandardCase == <<R(555000), <<549, 100>>, R(27)>>

\* loans whose monthly growth factor 1 + monthly_rate is a power of two (1200
\* and 3600 percent a year), and loans without interest, over whole years
FloatPrincipals == {R(1000), R(100000)}
FloatRates == {R(0), R(1200), R(3600)}
FloatTerms == {R(1), R(4), R(5)}

\* a loan without interest over ten years: principal 120000, rate 0, 10 years
ZeroRateCase == <<R(120000), R(0), R(10)>>

\* calendar dates <<year, month, day>>; None is Python's None
None == <<>>
Dates == { <<2024, 1, 31>>, <<2024, 11, 30>>, <<2024, 12, 15>> }

IsLeap(y) == (y % 4 = 0 /\ y % 100 # 0) \/ y % 400 = 0

DaysInMonth(y, m) ==
    IF m = 2 THEN (IF IsLeap(y) THEN 29 ELSE 28)
    ELSE IF m \in {4, 6, 9, 11} THEN 30 ELSE 31

\* the month after a date, as lines 67-70 of loan_app.py ask for it
NextMonth(d) ==
    IF d[2] = 12 THEN <<d[1] + 1, 1, d[3]>> ELSE <<d[1], d[2] + 1, d[3]>>

\* datetime.replace raises ValueError when the day does not exist in the
\* requested month
DateExists(d) == d[3] <= DaysInMonth(d[1], d[2])

VARIABLES
    impl,                 \* "app": LoanAnalyzer, "manager": LoanScenarioAnalyzer
    op,                   \* the method called: "payment" or "schedule"
    principal, annual_rate, years, start_date,     \* the inputs
    now,                  \* what datetime.now() returns when the call reads it
    first,                \* the outcome of an earlier identical call, if any
    monthly_rate,         \* annual_rate / 100 / 12
    num_payments,         \* the exponent of the payment formula
    loop_periods,         \* the number of iterations the schedule loop is given
    pc,                   \* "start", "loop", "break", "done"
    monthly_payment, balance, cumulative_interest, current_date,
    payment_num,          \* the loop variable of LoanAnalyzer (1-based)
    month,                \* the loop variable of LoanScenarioAnalyzer (0-based)
    schedule,             \* the list of records appended so far
    investment,           \* the investment loan of a refinancing analysis
    scenarios,            \* the argument of scenario_analysis
    widgets,              \* the inputs of the refinancing tab
    cells,                \* the editable cells of the workbook
    results,              \* the rows, metrics or cells of a refinancing analysis
    result                \* "none", "ok", "ZeroDivisionError", "ValueError"

vars == <<impl, op, principal, annual_rate, years, start_date, now, first,
          monthly_rate,
          num_payments, loop_periods, pc, monthly_payment, balance,
          cumulative_interest, current_date, payment_num, month, schedule,
          investment, scenarios, widgets, cells, results, result>>

\* the variables of the refinancing analyses
refi == <<investment, scenarios, widgets, cells, results>>

\* the variables of one call of payment or schedule computation
call == <<monthly_rate, num_payments, loop_periods, monthly_payment, balance,
          cumulative_interest, current_date, payment_num, month, schedule>>

\* annual_rate / 100 / 12
MonthlyRate(rate) == RDiv(RDiv(rate, R(Percent)), R(MonthsPerYear))

\* years * 12
TermMonths(y) == RMul(y, R(MonthsPerYear))

\* mutant: the years are not converted to months
IntTermMonths_Years(y) == PyInt(y)
\* int(years * 12)
IntTermMonths(y) == PyInt(TermMonths(y))

(***************************************************************************)
(* The payment formula.  A result is [ok |-> TRUE, v |-> payment] or       *)
(* [ok |-> FALSE, v |-> the exception raised].                             *)
(***************************************************************************)
Ok(v) == [ok |-> TRUE, v |-> v]
Raise(e) == [ok |-> FALSE, v |-> e]

\* mutant: the payment with the sign of a cash outflow
PMT_Outflow(p, r, n) ==
    LET q == RAdd(One, r)
        qn == RPowQ(q, n)
        den == RSub(qn, One)
    IN  IF den = Zero THEN Raise("ZeroDivisionError")
        ELSE Ok(RNeg(RDiv(RMul(p, RMul(r, qn)), den)))
\* principal * (r * (1 + r)**n) / ((1 + r)**n - 1)
PMT(p, r, n) ==
    LET q == RAdd(One, r)
    IN  IF q = Zero /\ n[1] < 0 THEN Raise("ZeroDivisionError")
        ELSE LET qn == RPowQ(q, n)
                 den == RSub(qn, One)
             IN  IF den = Zero THEN Raise("ZeroDivisionError")
                 ELSE Ok(RDiv(RMul(p, RMul(r, qn)), den))

\* LoanAnalyzer.calculate_monthly_payment: n is self.num_payments, an int
AppCalculateMonthlyPayment(p, rate, r, n) ==
    IF rate = Zero
    THEN IF n = Zero THEN Raise("ZeroDivisionError") ELSE Ok(RDiv(p, n))
    ELSE PMT(p, r, n)

\* LoanScenarioAnalyzer.calculate_monthly_payment: the divisor and the
\* exponent are the float years * 12
ManagerCalculateMonthlyPayment(p, rate, y) ==
    IF rate = Zero
    THEN IF TermMonths(y) = Zero THEN Raise("ZeroDivisionError")
         ELSE Ok(RDiv(p, TermMonths(y)))
    ELSE PMT(p, MonthlyRate(rate), TermMonths(y))

\* A power with a non-integer exponent is a rational only in special cases:
\* the manager is explored with a nonzero rate on terms of a whole number of
\* months, and on terms of a whole number of half months when 1 + monthly
\* rate is a square.
Representable(i, rate, y) ==
    i = "manager" /\ rate # Zero =>
        \/ RIsInt(TermMonths(y))
        \/ TermMonths(y)[2] = 2 /\ RIsSquare(RAdd(One, MonthlyRate(rate)))

(***************************************************************************)
(* One iteration of the schedule loop.                                     *)
(***************************************************************************)
\* mutant: the annual instead of the monthly rate is charged
InterestPayment_Annual(bal, r) == RMul(bal, RMul(r, R(MonthsPerYear)))
\* interest_payment = balance * monthly_rate
InterestPayment(bal, r) == RMul(bal, r)

\* mutant: the interest is not taken off the payment
PrincipalPayment_WholePayment(pay, interest) == pay
\* principal_payment = monthly_payment - interest_payment
PrincipalPayment(pay, interest) == RSub(pay, interest)

\* balance -= principal_payment
NewBalance(bal, pp) == RSub(bal, pp)

\* mutant: the balance after the payment is reported as the beginning balance
BeginningBalance_AfterPayment(newbal, pp) == newbal
\* 'Beginning_Balance': balance + principal_payment, computed after the
\* balance was reduced
BeginningBalance(newbal, pp) == RAdd(newbal, pp)

\* mutant: the ending balance is not clamped
EndingBalance_Unclamped(newbal) == newbal
\* 'Ending_Balance': max(0, balance)
EndingBalance(newbal) == RMax0(newbal)

\* mutant: the running total is overwritten instead of added to
CumulativeInterest_Overwrite(cum, interest) == interest
\* cumulative_interest += interest_payment
CumulativeInterest(cum, interest) == RAdd(cum, interest)

\* mutant: the loop pays off self.principal itself
SelfPrincipal_InPlace(p, pp) == RSub(p, pp)
\* self.principal after a pass of the loop: the loop works on the local
\* balance (balance = self.principal, balance -= principal_payment)
SelfPrincipal(p, pp) == p

\* mutant: the loop never ends early
BreakAfter_Never(newbal) == FALSE
\* the loop ends early on balance <= 0
BreakAfter(newbal) == RLe(newbal, Zero)

\* mutant: the loop is left only by the balance test
AppLoopContinues_Unbounded(n, bound) == TRUE
\* for payment_num in range(1, self.num_payments + 1)
AppLoopContinues(n, bound) == n <= bound

\* mutant: the loop is left only by the balance test
ManagerLoopContinues_Unbounded(m, bound) == TRUE
\* for month in range(int(years * 12))
ManagerLoopContinues(m, bound) == m < bound

Init ==
    /\ impl \in {"app", "manager"}
    /\ \/ /\ op \in {"payment", "schedule"}
          /\ \/ /\ principal \in Principals
                /\ annual_rate \in AnnualRates
                /\ years \in Terms
                /\ Representable(impl, annual_rate, years)
             \/ /\ principal = ZeroRateCase[1]
                /\ annual_rate = ZeroRateCase[2]
                /\ years = ZeroRateCase[3]
          /\ investment = None /\ scenarios = None
          /\ widgets = None /\ cells = None
       \/ /\ op \in (IF impl = "app" THEN {"refinance"}
                      ELSE {"scenarios", "workbook"})
          /\ principal = R(100)
          /\ annual_rate \in RefiRates
          /\ years \in RefiTerms
          /\ investment \in Investments
          /\ scenarios \in (IF op = "scenarios" THEN ScenarioLists ELSE {None})
          /\ widgets \in (IF op = "refinance" THEN Widgets ELSE {None})
          /\ cells \in (IF op = "workbook" THEN Cells ELSE {None})
       \/ /\ op = "first_record"
          /\ principal = StandardCase[1]
          /\ annual_rate = StandardCase[2]
          /\ years = StandardCase[3]
          /\ investment = None /\ scenarios = None
          /\ widgets = None /\ cells = None
       \/ /\ op = "floats" /\ impl = "app"
          /\ principal \in FloatPrincipals
          /\ annual_rate \in FloatRates
          /\ years \in FloatTerms
          /\ investment = None /\ scenarios = None
          /\ widgets = None /\ cells = None
    /\ results = None
    /\ start_date \in (IF impl = "app" /\ op = "schedule"
                       THEN Dates \cup {None} ELSE {None})
    /\ now \in (IF impl = "app" /\ op = "schedule" /\ start_date = None
                THEN Dates ELSE {None})
    /\ first = None
    /\ monthly_rate = (IF impl = "app" THEN MonthlyRate(annual_rate) ELSE None)
    /\ num_payments = (IF impl = "app" THEN R(IntTermMonths(years)) ELSE None)
    /\ loop_periods = 0
    /\ pc = "start"
    /\ monthly_payment = None
    /\ balance = None
    /\ cumulative_interest = None
    /\ current_date = None
    /\ payment_num = 0
    /\ month = 0
    /\ schedule = <<>>
    /\ result = "none"

\* LoanAnalyzer.calculate_monthly_payment called on its own
AppPayment ==
    /\ impl = "app" /\ op = "payment" /\ pc = "start"
    /\ LET r == AppCalculateMonthlyPayment(principal, annual_rate,
                                           monthly_rate, num_payments)
       IN  /\ monthly_payment' = (IF r.ok THEN r.v ELSE None)
           /\ result' = (IF r.ok THEN "ok" ELSE r.v)
    /\ pc' = "done"
    /\ UNCHANGED <<impl, op, principal, annual_rate, years, start_date, now, first, refi,
                   monthly_rate, num_payments, loop_periods, balance,
                   cumulative_interest, current_date, payment_num, month,
                   schedule>>

\* LoanAnalyzer.create_amortization_schedule, lines 40-47: the clock is read
\* when no start date is given
AppScheduleBegin ==
    /\ impl = "app" /\ op = "schedule" /\ pc = "start"
    /\ current_date' = (IF start_date = None THEN now ELSE start_date)
    /\ LET r == AppCalculateMonthlyPayment(principal, annual_rate,
                                           monthly_rate, num_payments)
       IN  IF r.ok
           THEN /\ monthly_payment' = r.v
                /\ balance' = principal
                /\ cumulative_interest' = Zero
                /\ loop_periods' = num_payments[1]
                /\ payment_num' = 1
                /\ pc' = "loop"
                /\ result' = result
           ELSE /\ result' = r.v
                /\ pc' = "done"
                /\ UNCHANGED <<monthly_payment, balance, cumulative_interest,
                               loop_periods, payment_num>>
    /\ UNCHANGED <<impl, op, principal, annual_rate, years, start_date, now, first, refi,
                   monthly_rate, num_payments, month, schedule>>

\* lines 49-73: one pass through the body of the for loop
AppScheduleStep ==
    /\ impl = "app" /\ pc = "loop"
    /\ AppLoopContinues(payment_num, loop_periods)
    /\ LET interest_payment == InterestPayment(balance, monthly_rate)
           principal_payment == PrincipalPayment(monthly_payment, interest_payment)
           new_balance == NewBalance(balance, principal_payment)
           new_cumulative == CumulativeInterest(cumulative_interest, interest_payment)
           rec == [Payment_Number |-> payment_num,
                   Date |-> current_date,
                   Beginning_Balance |-> BeginningBalance(new_balance, principal_payment),
                   Monthly_Payment |-> monthly_payment,
                   Principal_Payment |-> principal_payment,
                   Interest_Payment |-> interest_payment,
                   Ending_Balance |-> EndingBalance(new_balance),
                   Cumulative_Interest |-> new_cumulative]
       IN  /\ balance' = new_balance
           /\ principal' = SelfPrincipal(principal, principal_payment)
           /\ cumulative_interest' = new_cumulative
           /\ schedule' = Append(schedule, rec)
           /\ IF ~DateExists(NextMonth(current_date))
              THEN /\ result' = "ValueError"
                   /\ pc' = "done"
                   /\ UNCHANGED <<current_date, payment_num>>
              ELSE /\ current_date' = NextMonth(current_date)
                   /\ result' = result
                   /\ IF BreakAfter(new_balance)
                      THEN pc' = "break" /\ payment_num' = payment_num
                      ELSE pc' = "loop" /\ payment_num' = payment_num + 1
    /\ UNCHANGED <<impl, op, annual_rate, years, start_date, now, first, refi,
                   monthly_rate, num_payments, loop_periods, monthly_payment,
                   month>>

\* line 75: the loop is over (range exhausted, or break)
AppScheduleReturn ==
    /\ impl = "app"
    /\ \/ pc = "loop" /\ ~AppLoopContinues(payment_num, loop_periods)
       \/ pc = "break"
    /\ pc' = "done"
    /\ result' = "ok"
    /\ UNCHANGED <<impl, op, principal, annual_rate, years, start_date, now, first, refi,
                   monthly_rate, num_payments, loop_periods, monthly_payment,
                   balance, cumulative_interest, current_date, payment_num,
                   month, schedule>>

\* the local num_payments of LoanScenarioAnalyzer.calculate_monthly_payment
\* (line 31), which the zero-rate branch never assigns
ManagerNumPayments(rate, y) == IF rate = Zero THEN None ELSE TermMonths(y)

\* LoanScenarioAnalyzer.calculate_monthly_payment called on its own
ManagerPayment ==
    /\ impl = "manager" /\ op = "payment" /\ pc = "start"
    /\ LET r == ManagerCalculateMonthlyPayment(principal, annual_rate, years)
       IN  /\ monthly_payment' = (IF r.ok THEN r.v ELSE None)
           /\ result' = (IF r.ok THEN "ok" ELSE r.v)
    /\ monthly_rate' = (IF annual_rate = Zero THEN None
                        ELSE MonthlyRate(annual_rate))
    /\ num_payments' = ManagerNumPayments(annual_rate, years)
    /\ pc' = "done"
    /\ UNCHANGED <<impl, op, principal, annual_rate, years, start_date, now, first, refi,
                   loop_periods, balance, cumulative_interest, current_date,
                   payment_num, month, schedule>>

\* LoanScenarioAnalyzer.create_amortization_schedule, lines 41-47
ManagerScheduleBegin ==
    /\ impl = "manager" /\ op = "schedule" /\ pc = "start"
    /\ monthly_rate' = MonthlyRate(annual_rate)
    /\ num_payments' = ManagerNumPayments(annual_rate, years)
    /\ LET r == ManagerCalculateMonthlyPayment(principal, annual_rate, years)
       IN  IF r.ok
           THEN /\ monthly_payment' = r.v
                /\ balance' = principal
                /\ loop_periods' = IntTermMonths(years)
                /\ month' = 0
                /\ pc' = "loop"
                /\ result' = result
           ELSE /\ result' = r.v
                /\ pc' = "done"
                /\ UNCHANGED <<monthly_payment, balance, loop_periods,
                               month>>
    /\ UNCHANGED <<impl, op, principal, annual_rate, years, start_date, now, first, refi,
                   cumulative_interest, current_date, payment_num, schedule>>

\* mutant: the 0-based loop variable is reported as the payment number
ManagerPaymentField_ZeroBased(m) == m
\* the 'Payment' field of a record of LoanScenarioAnalyzer (line 53)
ManagerPaymentField(m) == m + 1

\* lines 47-62: one pass through the body of the for loop over
\* range(int(years * 12))
ManagerScheduleStep ==
    /\ impl = "manager" /\ pc = "loop"
    /\ ManagerLoopContinues(month, loop_periods)
    /\ LET interest_payment == InterestPayment(balance, monthly_rate)
           principal_payment == PrincipalPayment(monthly_payment, interest_payment)
           new_balance == NewBalance(balance, principal_payment)
           rec == [Payment |-> ManagerPaymentField(month),
                   Beginning_Balance |-> BeginningBalance(new_balance, principal_payment),
                   Payment_Amount |-> monthly_payment,
                   Principal |-> principal_payment,
                   Interest |-> interest_payment,
                   Ending_Balance |-> EndingBalance(new_balance)]
       IN  /\ balance' = new_balance
           /\ schedule' = Append(schedule, rec)
           /\ IF BreakAfter(new_balance)
              THEN pc' = "break" /\ month' = month
              ELSE pc' = "loop" /\ month' = month + 1
    /\ UNCHANGED <<impl, op, principal, annual_rate, years, start_date, now, first, refi,
                   monthly_rate, num_payments, loop_periods, monthly_payment,
                   cumulative_interest, current_date, payment_num, result>>

\* line 64: the loop is over (range exhausted, or break)
ManagerScheduleReturn ==
    /\ impl = "manager"
    /\ \/ pc = "loop" /\ ~ManagerLoopContinues(month, loop_periods)
       \/ pc = "break"
    /\ pc' = "done"
    /\ result' = "ok"
    /\ UNCHANGED <<impl, op, principal, annual_rate, years, start_date, now, first, refi,
                   monthly_rate, num_payments, loop_periods, monthly_payment,
                   balance, cumulative_interest, current_date, payment_num,
                   month, schedule>>

(***************************************************************************)
(* Refinancing analyses.                                                   *)
(***************************************************************************)
\* math.ceil
Ceil(x) == -Floor(RNeg(x))

\* math.ceil(refi_costs / monthly_savings) if monthly_savings > 0 else 'N/A'
ManagerBreakeven(refi_costs, monthly_savings) ==
    IF RLt(Zero, monthly_savings)
    THEN R(Ceil(RDiv(refi_costs, monthly_savings))) ELSE NA

\* scenario_analysis, lines 70-86: the row of the current loans
ScenarioAnalysisBegin ==
    /\ impl = "manager" /\ op = "scenarios" /\ pc = "start"
    /\ LET current_apt_payment ==
               ManagerCalculateMonthlyPayment(principal, annual_rate, years)
           current_inv_payment ==
               ManagerCalculateMonthlyPayment(investment.loan, investment.rate,
                                              investment.term)
       IN  IF current_apt_payment.ok /\ current_inv_payment.ok
           THEN /\ results' =
                     <<[Scenario |-> <<"Current">>,
                        Apt_Rate |-> annual_rate,
                        Inv_Rate |-> investment.rate,
                        Apt_Payment |-> current_apt_payment.v,
                        Inv_Payment |-> current_inv_payment.v,
                        Total_Payment |-> RAdd(current_apt_payment.v,
                                               current_inv_payment.v),
                        Monthly_Savings |-> Zero,
                        Annual_Savings |-> Zero,
                        Refi_Costs |-> Zero,
                        Breakeven_Months |-> NA]>>
                /\ pc' = "scenarios"
                /\ result' = result
           ELSE /\ result' = (IF current_apt_payment.ok
                              THEN current_inv_payment.v
                              ELSE current_apt_payment.v)
                /\ pc' = "done"
                /\ results' = results
    /\ UNCHANGED <<impl, op, principal, annual_rate, years, start_date, now,
                   first, investment, scenarios, widgets, cells, call>>

\* lines 89-115: one pass of the loop over enumerate(scenarios, 1)
ScenarioAnalysisStep ==
    /\ impl = "manager" /\ pc = "scenarios"
    /\ Len(results) <= Len(scenarios)
    /\ LET i == Len(results)
           scenario == scenarios[i]
           apt_rate == Get(scenario, "apt_rate", annual_rate)
           inv_rate == Get(scenario, "inv_rate", investment.rate)
           apt_term == Get(scenario, "apt_term", years)
           inv_term == Get(scenario, "inv_term", investment.term)
           refi_costs == Get(scenario, "refi_costs", R(DefaultRefiCosts))
           new_apt_payment ==
               ManagerCalculateMonthlyPayment(principal, apt_rate, apt_term)
           new_inv_payment ==
               ManagerCalculateMonthlyPayment(investment.loan, inv_rate, inv_term)
       IN  IF new_apt_payment.ok /\ new_inv_payment.ok
           THEN LET new_total == RAdd(new_apt_payment.v, new_inv_payment.v)
                    monthly_savings == RSub(results[1].Total_Payment, new_total)
                IN  /\ results' = Append(results,
                          [Scenario |-> <<"Scenario", i>>,
                           Apt_Rate |-> apt_rate,
                           Inv_Rate |-> inv_rate,
                           Apt_Payment |-> new_apt_payment.v,
                           Inv_Payment |-> new_inv_payment.v,
                           Total_Payment |-> new_total,
                           Monthly_Savings |-> monthly_savings,
                           Annual_Savings |-> RMul(monthly_savings,
                                                   R(MonthsPerYear)),
                           Refi_Costs |-> refi_costs,
                           Breakeven_Months |-> ManagerBreakeven(refi_costs,
                                                                 monthly_savings)])
                    /\ pc' = pc
                    /\ result' = result
           ELSE /\ result' = (IF new_apt_payment.ok THEN new_inv_payment.v
                              ELSE new_apt_payment.v)
                /\ pc' = "done"
                /\ results' = results
    /\ UNCHANGED <<impl, op, principal, annual_rate, years, start_date, now,
                   first, investment, scenarios, widgets, cells, call>>

\* line 117: the rows are returned
ScenarioAnalysisReturn ==
    /\ impl = "manager" /\ pc = "scenarios"
    /\ Len(results) > Len(scenarios)
    /\ pc' = "done"
    /\ result' = "ok"
    /\ UNCHANGED <<impl, op, principal, annual_rate, years, start_date, now,
                   first, refi, call>>

\* f"{x:.1f}": x rounded to one decimal
Format1f(x) == RDiv(R(Round(RMul(x, R(10)))), R(10))

\* what the page shows where no break-even line is written
NotShown == None

\* loan_app.py lines 199-203: the break-even line of one loan
AppBreakeven(refi_costs, savings) ==
    IF RLt(Zero, savings) THEN Format1f(RDiv(refi_costs, savings)) ELSE NotShown

\* loan_app.py lines 254-258: the combined break-even metric
CombinedBreakeven(total_refi_costs, total_savings) ==
    IF RLt(Zero, total_savings) /\ RLt(Zero, total_refi_costs)
    THEN Format1f(RDiv(total_refi_costs, total_savings)) ELSE NA

\* LoanAnalyzer(p, rate, term).calculate_monthly_payment()
AppPaymentOf(p, rate, term) ==
    AppCalculateMonthlyPayment(p, rate, MonthlyRate(rate), R(IntTermMonths(term)))

\* main(), lines 160-162 and 176-258: the refinancing tab
AppRefinance ==
    /\ impl = "app" /\ op = "refinance" /\ pc = "start"
    /\ LET apt_payment == AppPaymentOf(principal, annual_rate, years)
           inv_payment == AppPaymentOf(investment.loan, investment.rate,
                                       investment.term)
           new_apt == IF widgets.apt_refi
                      THEN AppPaymentOf(principal, widgets.apt_new_rate,
                                        widgets.apt_new_term)
                      ELSE apt_payment
           new_inv == IF widgets.inv_refi
                      THEN AppPaymentOf(investment.loan, widgets.inv_new_rate,
                                        widgets.inv_new_term)
                      ELSE inv_payment
           failed == { r \in {apt_payment, inv_payment, new_apt, new_inv} : ~r.ok }
       IN  IF failed = {}
           THEN LET apt_savings == IF widgets.apt_refi
                                   THEN RSub(apt_payment.v, new_apt.v) ELSE Zero
                    apt_refi_costs == IF widgets.apt_refi
                                      THEN widgets.apt_refi_costs ELSE Zero
                    inv_savings == IF widgets.inv_refi
                                   THEN RSub(inv_payment.v, new_inv.v) ELSE Zero
                    inv_refi_costs == IF widgets.inv_refi
                                      THEN widgets.inv_refi_costs ELSE Zero
                    total_savings == RAdd(apt_savings, inv_savings)
                    total_refi_costs == RAdd(apt_refi_costs, inv_refi_costs)
                IN  /\ results' =
                         [Apt_Payment |-> apt_payment.v,
                          New_Apt_Payment |-> new_apt.v,
                          Apt_Savings |-> apt_savings,
                          Apt_Refi_Costs |-> apt_refi_costs,
                          Apt_Breakeven |->
                              IF widgets.apt_refi
                              THEN AppBreakeven(apt_refi_costs, apt_savings)
                              ELSE NotShown,
                          Inv_Payment |-> inv_payment.v,
                          New_Inv_Payment |-> new_inv.v,
                          Inv_Savings |-> inv_savings,
                          Inv_Refi_Costs |-> inv_refi_costs,
                          Inv_Breakeven |->
                              IF widgets.inv_refi
                              THEN AppBreakeven(inv_refi_costs, inv_savings)
                              ELSE NotShown,
                          Total_Savings |-> total_savings,
                          Total_Refi_Costs |-> total_refi_costs,
                          Combined_Breakeven |->
                              CombinedBreakeven(total_refi_costs, total_savings)]
                    /\ result' = "ok"
           ELSE /\ result' = (CHOOSE r \in failed : TRUE).v
                /\ results' = results
    /\ pc' = "done"
    /\ UNCHANGED <<impl, op, principal, annual_rate, years, start_date, now,
                   first, investment, scenarios, widgets, cells, call>>

\* the worksheet function PMT(rate, nper, pv): the payment as a cash
\* outflow, a negative number for a positive pv
ExcelPMT(rate, nper, pv) ==
    IF rate = Zero THEN RNeg(RDiv(pv, nper))
    ELSE LET qn == RPowQ(RAdd(One, rate), nper)
         IN  RNeg(RDiv(RMul(pv, RMul(rate, qn)), RSub(qn, One)))

\* dashboard cell B30: =IF(B29>0,B26/B29,"N/A")
DashboardBreakeven(B26, B29) == IF RLt(Zero, B29) THEN RDiv(B26, B29) ELSE NA

\* apartment sheet cell C25: =IF(ABS(D22)>0,B15/ABS(D22),"N/A")
SheetBreakeven(B15, D22) ==
    LET abs == IF RLt(D22, Zero) THEN RNeg(D22) ELSE D22
    IN  IF RLt(Zero, abs) THEN RDiv(B15, abs) ELSE NA

\* the formulas that _create_dashboard and _create_apartment_analysis write
\* into the workbook, as the spreadsheet program evaluates them
WorkbookRecalculate ==
    /\ impl = "manager" /\ op = "workbook" /\ pc = "start"
    /\ LET twelve == R(MonthsPerYear)
           \* dashboard
           B11 == principal
           B12 == RDiv(annual_rate, R(Percent))
           B13 == years
           B14 == ExcelPMT(RDiv(B12, twelve), RMul(B13, twelve), B11)
           B17 == investment.loan
           B18 == RDiv(investment.rate, R(Percent))
           B19 == investment.term
           B20 == ExcelPMT(RDiv(B18, twelve), RMul(B19, twelve), B17)
           B28 == RAdd(ExcelPMT(RDiv(cells.Dashboard_B24, twelve),
                                RMul(B13, twelve), B11),
                       ExcelPMT(RDiv(cells.Dashboard_B25, twelve),
                                RMul(B19, twelve), B17))
           B29 == RSub(RAdd(B14, B20), B28)
           \* apartment sheet: B5, B6, B7 hold the same loan as B11, B12, B13
           B8 == ExcelPMT(RDiv(B12, twelve), RMul(B13, twelve), B11)
           B16 == ExcelPMT(RDiv(cells.Apartment_B13, twelve),
                           RMul(cells.Apartment_B14, twelve), B11)
           D22 == RSub(B16, B8)
       IN  results' =
               [Dashboard_B14 |-> B14, Dashboard_B20 |-> B20,
                Dashboard_B28 |-> B28, Dashboard_B29 |-> B29,
                Dashboard_B30 |-> DashboardBreakeven(cells.Dashboard_B26, B29),
                Apartment_B8 |-> B8, Apartment_B16 |-> B16,
                Apartment_D22 |-> D22,
                Apartment_C25 |-> SheetBreakeven(cells.Apartment_B15, D22)]
    /\ pc' = "done"
    /\ result' = "ok"
    /\ UNCHANGED <<impl, op, principal, annual_rate, years, start_date, now,
                   first, investment, scenarios, widgets, cells, call>>

(***************************************************************************)
(* The payment and the first record of a long loan, enclosed.              *)
(***************************************************************************)
\* mutant: the denominator lacks its "- 1"
EnclosedPMT_NoMinusOne(p, r, n) ==
    LET qn == IPow(IAdd(IOne, r), n)
    IN  IDiv(IMul(p, IMul(r, qn)), qn)
\* principal * (r * (1 + r)**n) / ((1 + r)**n - 1) for r > 0 and a whole
\* number n of payments
EnclosedPMT(p, r, n) ==
    LET qn == IPow(IAdd(IOne, r), n)
    IN  IDiv(IMul(p, IMul(r, qn)), ISub(qn, IOne))

\* calculate_monthly_payment and the first pass of the schedule loop of
\* either class, for a loan at a positive rate over a whole number of months
FirstRecord ==
    /\ op = "first_record" /\ pc = "start"
    /\ LET p == Enclose(RDiv(principal, R(Million)))
           r == Enclose(MonthlyRate(annual_rate))
           n == IntTermMonths(years)
           pay == EnclosedPMT(p, r, n)
           interest_payment == IMul(p, r)
       IN  results' = [Monthly_Payment |-> pay,
                       Interest_Payment |-> interest_payment,
                       Principal_Payment |-> ISub(pay, interest_payment)]
    /\ pc' = "done"
    /\ result' = "ok"
    /\ UNCHANGED <<impl, op, principal, annual_rate, years, start_date, now,
                   first, investment, scenarios, widgets, cells, call>>

(***************************************************************************)
(* LoanAnalyzer in the arithmetic of Python floats.                        *)
(***************************************************************************)
\* LoanAnalyzer.calculate_monthly_payment for num_payments = n >= 1
FloatMonthlyPayment(p, rate, r, n) ==
    IF FIsZero(rate) THEN FDiv(p, FInt(n))
    ELSE LET qn == FPow(FAdd(FInt(1), r), n)
         IN  FDiv(FMul(p, FMul(r, qn)), FSub(qn, FInt(1)))

\* LoanAnalyzer(principal, annual_rate, years).create_amortization_schedule()
\* on floats, lines 25-30 and 40-47: the attributes and the locals before the
\* loop (the dates of the records are left out)
FloatScheduleBegin ==
    /\ op = "floats" /\ pc = "start"
    /\ LET p == FLit(principal)
           rate == FLit(annual_rate)
           r == FDiv(FDiv(rate, FInt(Percent)), FInt(MonthsPerYear))
           n == IntTermMonths(years)
       IN  results' = [principal |-> p,
                       monthly_rate |-> r,
                       num_payments |-> n,
                       monthly_payment |-> FloatMonthlyPayment(p, rate, r, n),
                       balance |-> p,
                       cumulative_interest |-> FZero,
                       payment_num |-> 1,
                       schedule |-> <<>>]
    /\ pc' = "float_loop"
    /\ UNCHANGED <<impl, op, principal, annual_rate, years, start_date, now,
                   first, investment, scenarios, widgets, cells, call, result>>

\* lines 49-73 on floats: one pass through the body of the for loop
FloatScheduleStep ==
    /\ op = "floats" /\ pc = "float_loop"
    /\ AppLoopContinues(results.payment_num, results.num_payments)
    /\ LET interest_payment == FMul(results.balance, results.monthly_rate)
           principal_payment == FSub(results.monthly_payment, interest_payment)
           new_balance == FSub(results.balance, principal_payment)
           new_cumulative == FAdd(results.cumulative_interest, interest_payment)
           rec == [Payment_Number |-> results.payment_num,
                   Beginning_Balance |-> FAdd(new_balance, principal_payment),
                   Monthly_Payment |-> results.monthly_payment,
                   Principal_Payment |-> principal_payment,
                   Interest_Payment |-> interest_payment,
                   Ending_Balance |-> FMax0(new_balance),
                   Cumulative_Interest |-> new_cumulative]
           break == ~FPositive(new_balance)
       IN  /\ results' = [results EXCEPT
                             !.balance = new_balance,
                             !.cumulative_interest = new_cumulative,
                             !.schedule = Append(@, rec),
                             !.payment_num = IF break THEN @ ELSE @ + 1]
           /\ pc' = (IF break THEN "float_break" ELSE "float_loop")
    /\ UNCHANGED <<impl, op, principal, annual_rate, years, start_date, now,
                   first, investment, scenarios, widgets, cells, call, result>>

\* line 75 on floats: the loop is over (range exhausted, or break)
FloatScheduleReturn ==
    /\ op = "floats"
    /\ \/ /\ pc = "float_loop"
          /\ ~AppLoopContinues(results.payment_num, results.num_payments)
       \/ pc = "float_break"
    /\ pc' = "done"
    /\ result' = "ok"
    /\ UNCHANGED <<impl, op, principal, annual_rate, years, start_date, now,
                   first, refi, call>>

\* the clock never runs backwards
DateLe(d, e) ==
    \/ d[1] < e[1]
    \/ d[1] = e[1] /\ d[2] < e[2]
    \/ d[1] = e[1] /\ d[2] = e[2] /\ d[3] <= e[3]

\* the same method is called once more with the same arguments (on the same
\* LoanAnalyzer object, as main() does for the chart, the table and the
\* export); the clock may have advanced in the meantime
ScheduleAgain ==
    /\ op = "schedule" /\ pc = "done" /\ first = None
    /\ first' = [schedule |-> schedule, result |-> result]
    /\ now' \in (IF now = None THEN {None}
                 ELSE { d \in Dates : DateLe(now, d) })
    /\ pc' = "start"
    /\ result' = "none"
    /\ schedule' = <<>>
    /\ loop_periods' = 0
    /\ monthly_payment' = None
    /\ balance' = None
    /\ cumulative_interest' = None
    /\ current_date' = None
    /\ payment_num' = 0
    /\ month' = 0
    /\ monthly_rate' = (IF impl = "app" THEN monthly_rate ELSE None)
    /\ num_payments' = (IF impl = "app" THEN num_payments ELSE None)
    /\ UNCHANGED <<impl, op, principal, annual_rate, years, start_date, refi>>

Next ==
    \/ AppPayment
    \/ AppScheduleBegin
    \/ AppScheduleStep
    \/ AppScheduleReturn
    \/ ManagerPayment
    \/ ManagerScheduleBegin
    \/ ManagerScheduleStep
    \/ ManagerScheduleReturn
    \/ ScheduleAgain
    \/ ScenarioAnalysisBegin
    \/ ScenarioAnalysisStep
    \/ ScenarioAnalysisReturn
    \/ AppRefinance
    \/ WorkbookRecalculate
    \/ FirstRecord
    \/ FloatScheduleBegin
    \/ FloatScheduleStep
    \/ FloatScheduleReturn

Spec == Init /\ [][Next]_vars

(***************************************************************************)
(* Vocabulary of the properties.                                           *)
(***************************************************************************)
\* the input constraints of the specification: principal > 0,
\* annual_rate >= 0, term_years > 0
ValidInputs == RLt(Zero, principal) /\ RLe(Zero, annual_rate) /\ RLt(Zero, years)

\* the call has returned a value
Returned == pc = "done" /\ result = "ok"

\* the fields of a record, under the names of the specification
PaymentNumber(rec) == IF impl = "app" THEN rec.Payment_Number ELSE rec.Payment
PaymentAmount(rec) == IF impl = "app" THEN rec.Monthly_Payment ELSE rec.Payment_Amount
PrincipalPortion(rec) == IF impl = "app" THEN rec.Principal_Payment ELSE rec.Principal
InterestPortion(rec) == IF impl = "app" THEN rec.Interest_Payment ELSE rec.Interest

LastRecord == schedule[Len(schedule)]

\* the sum of the interest portions of records 1..k of a LoanAnalyzer schedule
RECURSIVE SumInterest(_)
SumInterest(k) ==
    IF k = 0 THEN Zero
    ELSE RAdd(SumInterest(k - 1), schedule[k].Interest_Payment)

(***************************************************************************)
(* Properties.                                                             *)
(***************************************************************************)

\* C1: with principal <= 0, annual_rate < 0 or term_years <= 0, computing
\* the payment or generating the schedule fails with an error (the
\* InvalidArgument of the specification; any exception is counted as one
\* here) and no record is emitted.
C1_InvalidInputsRejected ==
    ~ValidInputs =>
        /\ schedule = <<>>
        /\ (pc = "done" => result # "ok")

\* C2: for valid inputs the exponent of the payment formula and the bound of
\* the schedule loop are both round(term_years * 12).
C2_PeriodsAreRounded ==
    ValidInputs =>
        /\ (num_payments # None =>
               num_payments = R(Round(TermMonths(years))))
        /\ (pc \in {"loop", "break"} =>
               loop_periods = Round(TermMonths(years)))

\* C3: for valid inputs no division by zero occurs, and with annual_rate = 0
\* the payment is principal / (term_years * 12).
C3_ZeroRatePayment ==
    ValidInputs =>
        /\ result # "ZeroDivisionError"
        /\ (annual_rate = Zero /\ monthly_payment # None =>
               monthly_payment = RDiv(principal, RMul(years, R(12))))

\* C4: for valid inputs the ending balance of the final record of the
\* returned schedule is exactly 0.
C4_FinalBalanceIsZero ==
    ValidInputs /\ Returned /\ op = "schedule" /\ schedule # <<>> =>
        LastRecord.Ending_Balance = Zero

\* C5: no record has a negative ending balance; the ending balance of every
\* record is max(0, beginning_balance - principal_portion).
C5_EndingBalanceClamped ==
    \A k \in 1..Len(schedule) :
        LET rec == schedule[k]
            diff == RSub(rec.Beginning_Balance, PrincipalPortion(rec))
        IN  /\ RLe(Zero, rec.Ending_Balance)
            /\ rec.Ending_Balance = (IF RLt(diff, Zero) THEN Zero ELSE diff)

\* a record whose beginning balance less its principal portion is below zero,
\* so that the clamp decided its ending balance
C5_Witness ==
    /\ Returned
    /\ \E k \in 1..Len(schedule) :
         /\ RLt(RSub(schedule[k].Beginning_Balance,
                     PrincipalPortion(schedule[k])), Zero)
         /\ schedule[k].Ending_Balance = Zero

C7_PortionsSumToPayment ==
    Returned =>
        \A k \in 1..(Len(schedule) - 1) :
            RAdd(PrincipalPortion(schedule[k]), InterestPortion(schedule[k]))
                = PaymentAmount(schedule[k])

C7_Witness ==
    /\ Returned /\ ValidInputs
    /\ Len(schedule) >= 2
    /\ RLt(Zero, InterestPortion(schedule[1]))
    /\ RLt(Zero, PrincipalPortion(schedule[1]))

C9_CumulativeInterest ==
    impl = "app" =>
        \A k \in 1..Len(schedule) :
            /\ schedule[k].Cumulative_Interest = SumInterest(k)
            /\ (ValidInputs /\ k > 1 =>
                   RLe(schedule[k - 1].Cumulative_Interest,
                       schedule[k].Cumulative_Interest))

C9_Witness ==
    /\ impl = "app" /\ Returned /\ ValidInputs
    /\ Len(schedule) >= 3
    /\ RLt(schedule[2].Cumulative_Interest, schedule[3].Cumulative_Interest)

\* C10: for valid inputs a schedule has at most round(term_years * 12)
\* records, and its payment numbers are 1, 2, ..., length in order.
C10_LengthAndNumbering ==
    ValidInputs =>
        /\ Len(schedule) <= Round(TermMonths(years))
        /\ \A k \in 1..Len(schedule) : PaymentNumber(schedule[k]) = k

C10_Witness ==
    /\ Returned /\ ValidInputs
    /\ impl = "manager"
    /\ Len(schedule) >= 3
    /\ Len(schedule) = Round(TermMonths(years))

\* the number of passes the loop of the running call may still make
IterationsLeft ==
    IF pc = "start" THEN (IF IntTermMonths(years) < 0 THEN 0 ELSE IntTermMonths(years))
    ELSE IF pc = "loop"
         THEN (IF loop_periods - Len(schedule) < 0 THEN 0
               ELSE loop_periods - Len(schedule))
         ELSE 0

\* the number of steps the running call may still take: the setup, the
\* passes of the loop, the return
StepsLeft ==
    IF pc = "start" THEN IterationsLeft + 2
    ELSE IF pc \in {"loop", "break"} THEN IterationsLeft + 1
    ELSE 0

\* C11: schedule generation always terminates, after at most as many
\* iterations as the period count given to the loop (and, for valid inputs,
\* at most round(term_years * 12)), whether or not the balance reaches zero:
\* every step of a running call uses up one of a finite number of steps left, and
\* the records never outnumber the period count.
C11_Terminates ==
    [][op = "schedule" /\ pc # "done" =>
         /\ StepsLeft' < StepsLeft
         /\ StepsLeft' >= 0
         /\ (pc' = "done") = (StepsLeft' = 0)
         /\ Len(schedule') <= (IF loop_periods' < 0 THEN 0 ELSE loop_periods')
         /\ (ValidInputs => loop_periods' <= Round(TermMonths(years)))]_vars

\* a schedule that was ended by the period count with its balance still
\* above zero
C11_Witness ==
    /\ Returned /\ ValidInputs
    /\ Len(schedule) >= 1
    /\ Len(schedule) = loop_periods
    /\ RLt(Zero, balance)

\* C12: the loop stops as soon as the balance is <= 0 after a payment: a
\* record that is followed by another one left the balance above zero, the
\* loop is only re-entered with a balance above zero, and so every record
\* after the first begins with a balance above zero (the first begins with
\* the principal, which is above zero for valid inputs).
C12_StopsAtZeroBalance ==
    /\ \A k \in 1..(Len(schedule) - 1) :
          /\ RLt(Zero, schedule[k].Ending_Balance)
          /\ RLt(Zero, schedule[k + 1].Beginning_Balance)
    /\ (Len(schedule) >= 1 => schedule[1].Beginning_Balance = principal)
    /\ (ValidInputs => \A k \in 1..Len(schedule) :
                          RLt(Zero, schedule[k].Beginning_Balance))
    /\ (pc = "loop" /\ Len(schedule) >= 1 => RLt(Zero, balance))
    /\ (pc = "break" => Len(schedule) >= 1 /\ RLe(balance, Zero))

\* a returned schedule of several records whose last payment brought the
\* balance to zero
C12_Witness ==
    /\ Returned /\ ValidInputs
    /\ Len(schedule) >= 2
    /\ RLe(balance, Zero)
    /\ LastRecord.Ending_Balance = Zero

\* the sum of the principal portions of records 1..k
RECURSIVE SumPrincipal(_)
SumPrincipal(k) ==
    IF k = 0 THEN Zero
    ELSE RAdd(SumPrincipal(k - 1), PrincipalPortion(schedule[k]))

\* the tolerance of the repayment property: 0.01 monetary units
Tolerance == <<1, 100>>

\* C13: for valid loan terms with annual_rate > 0 (and a term of at least one
\* period), the principal portions of the full schedule add up to the
\* principal within 0.01.
C13_PrincipalIsRepaid ==
    /\ Returned /\ op = "schedule" /\ ValidInputs /\ RLt(Zero, annual_rate)
    /\ Round(TermMonths(years)) >= 1
    =>
        LET diff == RSub(SumPrincipal(Len(schedule)), principal)
        IN  RLe(diff, Tolerance) /\ RLe(RNeg(diff), Tolerance)

\* C14: a second call of schedule generation with the same valid inputs (same
\* principal, rate, term and the same, possibly omitted, start date) ends as
\* the first did and returns the same sequence of records.
C14_SameInputsSameSchedule ==
    ValidInputs /\ first # None /\ pc = "done" =>
        /\ result = first.result
        /\ (result = "ok" => schedule = first.schedule)

\* the inputs are those of the zero-rate case
IsZeroRateCase == <<principal, annual_rate, years>> = ZeroRateCase

\* C17: for principal 120000, rate 0 and 10 years the monthly payment is
\* exactly 1000, every record has interest 0 and a principal portion equal
\* to the payment, and the returned schedule has 120 records and ends at
\* balance 0.
C17_ZeroRateCase ==
    IsZeroRateCase =>
        /\ (monthly_payment # None => monthly_payment = R(1000))
        /\ (pc = "done" /\ op = "payment" => result = "ok")
        /\ \A k \in 1..Len(schedule) :
              /\ PaymentAmount(schedule[k]) = R(1000)
              /\ InterestPortion(schedule[k]) = Zero
              /\ PrincipalPortion(schedule[k]) = PaymentAmount(schedule[k])
        /\ (Returned /\ op = "schedule" =>
              /\ Len(schedule) = 120
              /\ LastRecord.Ending_Balance = Zero)

\* the schedule of the zero-rate case is returned in full
C17_Witness ==
    /\ IsZeroRateCase /\ Returned /\ op = "schedule"
    /\ Len(schedule) = 120
    /\ monthly_payment = R(1000)
    /\ balance = Zero

\* C19: for valid inputs the monthly payment that was computed is strictly
\* positive, and every record of the schedule carries that same payment.
C19_PaymentPositiveAndConstant ==
    ValidInputs =>
        /\ (monthly_payment # None => RLt(Zero, monthly_payment))
        /\ \A k \in 1..Len(schedule) :
              PaymentAmount(schedule[k]) = monthly_payment

\* a returned schedule of several records at a positive rate
C19_Witness ==
    /\ Returned /\ ValidInputs /\ op = "schedule"
    /\ RLt(Zero, annual_rate)
    /\ Len(schedule) >= 3
    /\ RLt(Zero, monthly_payment)

\* C20: for valid inputs a returned schedule is empty only if
\* round(term_years * 12) is zero, and when round(term_years * 12) is at
\* least 1 schedule generation raises no error and returns at least one
\* record.
C20_EmptyOnlyForZeroPeriods ==
    ValidInputs /\ op = "schedule" /\ pc = "done" =>
        /\ (result = "ok" /\ Len(schedule) = 0 => Round(TermMonths(years)) = 0)
        /\ (Round(TermMonths(years)) >= 1 => result = "ok" /\ Len(schedule) >= 1)

\* C15: wherever a refinancing analysis reports a break-even for monthly
\* savings above zero, the savings are the current payment less the proposed
\* payment and the break-even is the quotient one_time_cost /
\* monthly_savings itself: as a row of scenario_analysis holds it, and as
\* the refinancing tab prints it (to one decimal).
C15_BreakevenIsQuotient ==
    /\ impl = "manager" /\ op = "scenarios" =>
          \A i \in 2..Len(results) :
              /\ results[i].Monthly_Savings =
                     RSub(results[1].Total_Payment, results[i].Total_Payment)
              /\ (RLt(Zero, results[i].Monthly_Savings) =>
                     results[i].Breakeven_Months =
                         RDiv(results[i].Refi_Costs, results[i].Monthly_Savings))
    /\ impl = "app" /\ op = "refinance" /\ Returned =>
          /\ results.Apt_Savings =
                 (IF widgets.apt_refi
                  THEN RSub(results.Apt_Payment, results.New_Apt_Payment)
                  ELSE Zero)
          /\ (widgets.apt_refi /\ RLt(Zero, results.Apt_Savings) =>
                 results.Apt_Breakeven =
                     Format1f(RDiv(results.Apt_Refi_Costs, results.Apt_Savings)))

\* C16: whenever the monthly savings (current payment less proposed payment)
\* are zero or negative, no number is reported as the break-even: in the
\* rows of scenario_analysis, on the refinancing tab, in the break-even cell
\* of the dashboard and in the comparison table of the apartment sheet.
C16_NoBreakevenWithoutSavings ==
    /\ impl = "manager" /\ op = "scenarios" =>
          \A i \in 2..Len(results) :
              RLe(results[i].Monthly_Savings, Zero) =>
                  results[i].Breakeven_Months = NA
    /\ impl = "app" /\ op = "refinance" /\ Returned =>
          /\ (RLe(results.Apt_Savings, Zero) => ~IsNumber(results.Apt_Breakeven))
          /\ (RLe(results.Inv_Savings, Zero) => ~IsNumber(results.Inv_Breakeven))
          /\ (RLe(results.Total_Savings, Zero) =>
                 results.Combined_Breakeven = NA)
    /\ impl = "manager" /\ op = "workbook" /\ Returned =>
          LET current_total == RNeg(RAdd(results.Dashboard_B14,
                                         results.Dashboard_B20))
              new_total == RNeg(results.Dashboard_B28)
              apt_current == RNeg(results.Apartment_B8)
              apt_new == RNeg(results.Apartment_B16)
          IN  /\ (RLe(RSub(current_total, new_total), Zero) =>
                     results.Dashboard_B30 = NA)
              /\ (RLe(RSub(apt_current, apt_new), Zero) =>
                     results.Apartment_C25 = NA)

\* the interval of an amount of money x, in millions
Amount(x) == Enclose(<<x[1], x[2] * Million>>)

\* every number of the interval e is within tol of the amount c
Within(e, c, tol) ==
    /\ Amount(RSub(c, tol))[2] <= e[1]
    /\ e[2] <= Amount(RAdd(c, tol))[1]

\* some number of the interval e may be within tol of the amount c
PossiblyWithin(e, c, tol) ==
    /\ Amount(RSub(c, tol))[1] <= e[2]
    /\ e[1] <= Amount(RAdd(c, tol))[2]

\* the payment and the first record of the standard case were computed
StandardCaseComputed ==
    /\ op = "first_record" /\ Returned
    /\ <<principal, annual_rate, years>> = StandardCase

\* C18 as stated: for principal 555000, rate 5.49 and 27 years the monthly
\* payment is 3401 within 1, and the first record has an interest portion
\* of 2539 within 1 and a principal portion of 862 within 1.
C18_StandardCaseAsStated ==
    StandardCaseComputed =>
        /\ PossiblyWithin(results.Monthly_Payment, R(3401), One)
        /\ PossiblyWithin(results.Interest_Payment, R(2539), One)
        /\ PossiblyWithin(results.Principal_Payment, R(862), One)

\* C18, amended: for principal 555000, rate 5.49 and 27 years the monthly
\* payment is 3288.5 within 1, and the first record has an interest portion
\* of 2539 within 1 and a principal portion of 749.4 within 1.
C18_StandardCase ==
    StandardCaseComputed =>
        /\ Within(results.Monthly_Payment, <<32885, 10>>, One)
        /\ Within(results.Interest_Payment, R(2539), One)
        /\ Within(results.Principal_Payment, <<7494, 10>>, One)

\* the standard case was computed, by LoanAnalyzer, to within a quarter
C18_Witness ==
    /\ StandardCaseComputed /\ impl = "app"
    /\ Within(results.Monthly_Payment, <<328853, 100>>, <<1, 4>>)

\* a date advanced by k months, a month at a time, the day left as it is
RECURSIVE AddMonths(_, _)
AddMonths(d, k) == IF k = 0 THEN d ELSE NextMonth(AddMonths(d, k - 1))

\* C21: when a start date is given (and the inputs are valid), record k is
\* labelled with the start date advanced by k - 1 months, December rolling
\* over to January of the next year and the day left unchanged, and
\* advancing the date never makes schedule generation fail.
C21_DatesAdvanceByMonths ==
    impl = "app" /\ op = "schedule" /\ start_date # None /\ ValidInputs =>
        /\ \A k \in 1..Len(schedule) :
              schedule[k].Date = AddMonths(start_date, k - 1)
        /\ (pc = "done" => result # "ValueError")

\* the records a and b hold the same amounts (all fields but the date)
SameAmounts(a, b) ==
    /\ Len(a) = Len(b)
    /\ \A k \in 1..Len(a) :
          /\ PaymentNumber(a[k]) = PaymentNumber(b[k])
          /\ PaymentAmount(a[k]) = PaymentAmount(b[k])
          /\ PrincipalPortion(a[k]) = PrincipalPortion(b[k])
          /\ InterestPortion(a[k]) = InterestPortion(b[k])
          /\ a[k].Beginning_Balance = b[k].Beginning_Balance
          /\ a[k].Ending_Balance = b[k].Ending_Balance

\* C22: no step of calculate_monthly_payment, create_amortization_schedule
\* or scenario_analysis changes a stored loan field (principal, rate, term,
\* monthly_rate and num_payments of LoanAnalyzer; the apartment and
\* investment loans of LoanScenarioAnalyzer), so a schedule computed after
\* another call holds the same amounts as the one computed before.
C22_NoSideEffects ==
    [][/\ principal' = principal
       /\ annual_rate' = annual_rate
       /\ years' = years
       /\ investment' = investment
       /\ (impl = "app" => /\ monthly_rate' = monthly_rate
                           /\ num_payments' = num_payments)
       /\ (first' # None /\ pc' = "done" /\ result' = "ok"
              /\ first'.result = "ok"
           => SameAmounts(schedule', first'.schedule))]_vars

\* a second schedule of several records was returned by the same
\* LoanAnalyzer, whose fields are as the constructor set them
C22_Witness ==
    /\ impl = "app" /\ first # None /\ Returned
    /\ first.result = "ok"
    /\ Len(schedule) >= 2
    /\ monthly_rate = MonthlyRate(annual_rate)
    /\ num_payments = R(IntTermMonths(years))

OtherPayment ==
    IF impl = "app"
    THEN ManagerCalculateMonthlyPayment(principal, annual_rate, years)
    ELSE AppPaymentOf(principal, annual_rate, years)

\* C24: LoanAnalyzer and LoanScenarioAnalyzer are equivalent: for every
\* valid (principal, annual_rate, term_years), whole or fractional in
\* months, the call of one ends as the call of the other would, with the
\* same monthly payment.
C24_SamePayment ==
    /\ ValidInputs /\ op \in {"payment", "schedule"} /\ pc = "done"
    /\ result # "ValueError"
    /\ Representable("manager", annual_rate, years)
    =>
    IF result = "ok"
    THEN OtherPayment.ok /\ OtherPayment.v = monthly_payment
    ELSE ~OtherPayment.ok

\* C25: for every valid loan the principal portion of every record is strictly
\* positive, so the ending balance strictly decreases from record to record
\* and never exceeds the principal -- in the schedules computed exactly, and in
\* the schedules LoanAnalyzer computes on floats
C25_PrincipalPortionPositive ==
    /\ op = "schedule" /\ ValidInputs =>
           \A k \in 1..Len(schedule) :
               /\ RLt(Zero, PrincipalPortion(schedule[k]))
               /\ RLe(schedule[k].Ending_Balance, principal)
               /\ (k > 1 => RLt(schedule[k].Ending_Balance,
                                schedule[k - 1].Ending_Balance))
    /\ op = "floats" /\ pc # "start" /\ ValidInputs =>
           \A k \in 1..Len(results.schedule) :
               /\ FPositive(results.schedule[k].Principal_Payment)
               /\ ~FLess(results.principal, results.schedule[k].Ending_Balance)
               /\ (k > 1 => FLess(results.schedule[k].Ending_Balance,
                                  results.schedule[k - 1].Ending_Balance))
====
